---- MODULE Spec2Model ----
(***************************************************************************)
(* Model of the verification pipeline of archlinux-userland-fs-cmp:        *)
(* DbLister (pkg.rs), the ManifestFetcher pool (fetch.rs), DiskScanner and *)
(* the Hasher pool (disk.rs) and the Coordinator (main.rs, App + run).     *)
(* All tasks talk to the Coordinator through one unbounded FIFO event bus. *)
(*                                                                         *)
(* A send on the bus fails only once the Coordinator has dropped the       *)
(* receiver, which it does after leaving its loop; it leaves the loop when *)
(* every sender is gone (or when a hasher's reply channel is lost), so the *)
(* tasks' `send(..).is_err()` exits are not steps of their own here.       *)
(***************************************************************************)
EXTENDS Integers, Sequences, FiniteSets, TLC

(***************************************************************************)
(* Bounds of the model and program constants.                              *)
(***************************************************************************)
\* number of packages the database walk yields
NumPkgs == 2
\* args.concurrency: size of the hasher pool (N_HASH)
NumHashWorker == 1
\* most events the bus holds at once in the model (the bus of the code is
\* unbounded): a sender waits while the bus is that full
MaxBus == 1
\* number of files below <dbpath>/local in the databases studied on their own
NumDbFiles == 3
\* fetch.rs: const NUM_HTTP_WORKERS
NUM_HTTP_WORKERS == 4

Pkgs == 1..NumPkgs
HttpWorkers == 1..NUM_HTTP_WORKERS
Hashers == 1..NumHashWorker

(***************************************************************************)
(* The audited tree.  WalkDir yields the root first and then its entries   *)
(* in directory order, the content of a directory right after it; a walk   *)
(* is that order, each entry with its depth below the root ("/" stands for *)
(* the scan root args.path).  Walk is the tree of the whole pipeline.      *)
(***************************************************************************)
Walk ==
    << [path |-> "/",  type |-> "dir", depth |-> 0],
       [path |-> "/a", type |-> "file", depth |-> 1],
       [path |-> "/l", type |-> "symlink", depth |-> 1],
       [path |-> "/b", type |-> "file", depth |-> 1] >>

\* the tree the DiskScanner is studied on by itself: a sub-directory,
\* entries that are neither directory, regular file nor symlink, and an
\* entry for which next() yields a walkdir::Error
ScanTree ==
    << [path |-> "/",    type |-> "dir", depth |-> 0],
       [path |-> "/a",   type |-> "file", depth |-> 1],
       [path |-> "/d",   type |-> "dir", depth |-> 1],
       [path |-> "/d/x", type |-> "file", depth |-> 2],
       [path |-> "/d/p", type |-> "fifo", depth |-> 2],
       [path |-> "/d/e", type |-> "error", depth |-> 2],
       [path |-> "/d/y", type |-> "file", depth |-> 2],
       [path |-> "/l",   type |-> "symlink", depth |-> 1],
       [path |-> "/s",   type |-> "socket", depth |-> 1],
       [path |-> "/b",   type |-> "file", depth |-> 1] >>

\* SHA-256 (hex) of the content of each regular file of the tree
DiskContent(path) ==
    CASE path = "/a" -> "aa"
      [] path = "/b" -> "bb"
      [] OTHER -> "none"

\* the paths in lexicographic order (the order of a BTreeSet<PathBuf>)
SortedPaths == << "/a", "/b", "/d", "/d/e", "/d/p", "/d/x", "/d/y", "/l", "/s" >>

\* hex::decode succeeds on the digest string
IsHex(sha256) == sha256 # "zz"

\* Option::None for a path, a digest or a field
None == "None"

(***************************************************************************)
(* mtree::parse (mtree.rs).  A line is modelled by whether it starts with  *)
(* '.', whether it holds a space, and the words after the first space; a   *)
(* word is key=value, or has no '=' (eq is FALSE).                         *)
(***************************************************************************)
Word(key, value) == [key |-> key, value |-> value, eq |-> TRUE]
NoEqWord == [key |-> "noeq", value |-> "", eq |-> FALSE]

\* the words the lines of the model are made of, in the order they take
\* in a line
WordPool ==
    << Word("time", "1704931316.0"),
       Word("size", "6"),
       Word("size", "big"),
       Word("md5digest", "m5"),
       Word("sha256digest", "aa"),
       Word("mode", "777"),
       Word("type", "dir"),
       Word("type", "link"),
       Word("type", "fifo"),
       Word("link", "/t"),
       Word("flags", "none"),
       NoEqWord >>

\* the words of the pool whose index is in S, in pool order
RECURSIVE WordsOf(_, _)
WordsOf(S, i) ==
    IF i > Len(WordPool) THEN <<>>
    ELSE (IF i \in S THEN << WordPool[i] >> ELSE <<>>) \o WordsOf(S, i + 1)

\* the lines handed to parse
MtreeLines ==
    { [dot |-> dot, space |-> TRUE, words |-> WordsOf(S, 1)] :
        dot \in BOOLEAN, S \in SUBSET (1..Len(WordPool)) }
    \cup { [dot |-> dot, space |-> FALSE, words |-> <<>>] : dot \in BOOLEAN }

\* value.parse::<u64>() succeeds
IsU64(value) == value = "6"

\* parse has not run
Unparsed == [content |-> "Unparsed"]
\* Option::None of parse
NoEntry == [content |-> "None"]

\* the loop over the words: the Options after it, failed set by `.ok()?`
RECURSIVE ParseWords(_, _)
ParseWords(words, acc) ==
    IF words = <<>> THEN acc
    ELSE LET md == Head(words)
         IN  IF ~md.eq THEN ParseWords(Tail(words), acc)
             ELSE IF md.key = "size"
             THEN (IF IsU64(md.value)
                   THEN ParseWords(Tail(words), [acc EXCEPT !.size = md.value])
                   ELSE [acc EXCEPT !.failed = TRUE])
             ELSE IF md.key = "type"
             THEN ParseWords(Tail(words), [acc EXCEPT !.t = md.value])
             ELSE IF md.key \in { "time", "md5digest", "sha256digest", "mode", "link" }
             THEN ParseWords(Tail(words), [acc EXCEPT ![md.key] = md.value])
             ELSE ParseWords(Tail(words), acc)

\* mtree::parse(line)
Parse(line) ==
    IF ~line.dot THEN NoEntry
    ELSE IF ~line.space THEN NoEntry            \* line.split_once(' ')?
    ELSE LET f == ParseWords(line.words,
                     [ time |-> None, size |-> None, md5digest |-> None,
                       sha256digest |-> None, mode |-> None, t |-> None,
                       link |-> None, failed |-> FALSE ])
         IN  IF f.failed THEN NoEntry
             ELSE IF f.t = None
             THEN (IF f.size = None \/ f.sha256digest = None \/ f.time = None
                   THEN NoEntry
                   ELSE [ content |-> "File", time |-> f.time, size |-> f.size,
                          md5digest |-> f.md5digest, sha256digest |-> f.sha256digest ])
             ELSE IF f.t = "dir"
             THEN (IF f.time = None THEN NoEntry
                   ELSE [ content |-> "Directory", time |-> f.time ])
             ELSE IF f.t = "link"
             THEN (IF f.mode = None \/ f.link = None \/ f.time = None THEN NoEntry
                   ELSE [ content |-> "Link", time |-> f.time, mode |-> f.mode,
                          link |-> f.link ])
             ELSE NoEntry     \* warn!("Unknown mtree type")

(***************************************************************************)
(* The package archive (fetch.rs).  For a package and an extension the     *)
(* archive answers with a status, and with an .MTREE on success; a request *)
(* that fails in transport has status "error".                             *)
(***************************************************************************)
Response(status, mtree) == [status |-> status, mtree |-> mtree]
NotFound == Response("404", <<>>)
Served(zst, xz) == [zst |-> zst, xz |-> xz]
\* mtree::Entry of a file, and of anything else
FileEntry(path, sha256) == [path |-> path, content |-> "File", sha256 |-> sha256]
OtherEntry(path, content) == [path |-> path, content |-> content, sha256 |-> None]

\* The installed packages and what the archive serves for them: a catalog is
\* a list of Served records; package k is given record ((k - 1) mod length)
\* + 1 of the list.
Catalogs ==
    { \* two packages claim /a with different digests
      << Served(Response("200", << FileEntry("./a", "aa") >>), NotFound),
         Served(Response("200", << FileEntry("./a", "bb") >>), NotFound) >>,
      \* two packages claim /a with the same digest, the second as .tar.xz
      << Served(Response("200", << FileEntry("./a", "aa") >>), NotFound),
         Served(NotFound, Response("200", << FileEntry("./a", "aa") >>)) >>,
      \* digests for /a and /b that are not hex
      << Served(Response("200", << OtherEntry("./d", "Directory"),
                                   FileEntry("./a", "zz") >>), NotFound),
         Served(Response("200", << FileEntry("./.BUILDINFO", "cc"),
                                   FileEntry("./b", "zz") >>), NotFound) >>,
      \* no manifest for the first package (404 for both extensions)
      << Served(NotFound, NotFound),
         Served(Response("200", << FileEntry("./b", "bb") >>), NotFound) >>,
      \* one manifest with both files; the requests for the second package
      \* fail, in transport and with a server error
      << Served(Response("200", << FileEntry("./a", "aa"), FileEntry("./b", "bb") >>),
                NotFound),
         Served(Response("error", <<>>), Response("500", <<>>)) >>,
      \* two packages claim /b, the first with a wrong digest
      << Served(Response("200", << FileEntry("./b", "aa") >>), NotFound),
         Served(Response("500", <<>>), Response("200", << FileEntry("./b", "bb") >>)) >> }

ManifestOf(catalog, pkg) == catalog[((pkg - 1) % Len(catalog)) + 1]

\* what the archive may answer to one request: a package with an .MTREE, a
\* success from which no entry can be read, 404, another status, no answer
Responses ==
    { Response("200", << FileEntry("./a", "aa") >>),
      Response("200", << FileEntry("./b", "bb") >>),
      Response("200", <<>>),
      NotFound,
      Response("500", <<>>),
      Response("error", <<>>) }

\* the archives the ManifestFetcher is studied with by itself: every pair
\* of answers to the two extensions, the same for every package
FetchCatalogs == { << Served(zst, xz) >> : zst \in Responses, xz \in Responses }

\* the (path, sha256digest) pairs of the File entries of an .MTREE
RECURSIVE FileDigests(_)
FileDigests(mtree) ==
    IF mtree = <<>> THEN <<>>
    ELSE (IF Head(mtree).content = "File"
          THEN << << Head(mtree).path, Head(mtree).sha256 >> >> ELSE <<>>)
         \o FileDigests(Tail(mtree))

\* fetch_trusted_hashes: the extensions in the order they are tried
Extensions == << "zst", "xz" >>

\* fetch_trusted_hashes from extension i on: the first extension answered
\* with success gives the stream; 404 (Ok(None)) and Err go to the next one
RECURSIVE FetchTrustedHashes(_, _)
FetchTrustedHashes(served, i) ==
    IF i > Len(Extensions) THEN <<>>
    ELSE IF served[Extensions[i]].status = "200"
         THEN FileDigests(served[Extensions[i]].mtree)
         ELSE FetchTrustedHashes(served, i + 1)

\* the loop of fetch_trusted_hashes with a request for every extension
RECURSIVE RequestsEvery(_, _)
RequestsEvery(served, i) ==
    IF i > Len(Extensions) THEN <<>>
    ELSE << Extensions[i] >> \o RequestsEvery(served, i + 1)

\* fetch_trusted_hashes from extension i on: the extensions whose URL is
\* requested, in order; the loop is left (break) after the first success
RECURSIVE Requests(_, _)
Requests(served, i) ==
    IF i > Len(Extensions) THEN <<>>
    ELSE << Extensions[i] >>
         \o (IF served[Extensions[i]].status = "200"
              THEN <<>>
              ELSE Requests(served, i + 1))

\* path.starts_with("./")
StartsWithDotSlash(path) ==
    path \in { "./a", "./b", "./d", "./.BUILDINFO", "./.PKGINFO", "./.INSTALL", "./.CHANGELOG" }

\* root.join(path) as a path of the model
RootJoin(path) ==
    CASE path = "./a" -> "/a"
      [] path = "./b" -> "/b"
      [] path = "./d" -> "/d"

\* the worker's loop over the stream: the pairs it sends as TrustedFile
RECURSIVE WorkerFilter(_)
WorkerFilter(stream) ==
    IF stream = <<>> THEN <<>>
    ELSE LET path == Head(stream)[1]
         IN  (IF path \in { "./.BUILDINFO", "./.PKGINFO", "./.INSTALL", "./.CHANGELOG" }
              THEN <<>>
              ELSE IF ~StartsWithDotSlash(path) THEN <<>>
              ELSE << << RootJoin(path), Head(stream)[2] >> >>)
             \o WorkerFilter(Tail(stream))

\* what a worker sends as TrustedFile for a package served this way
TrustedStream(served) == WorkerFilter(FetchTrustedHashes(served, 1))


(***************************************************************************)
(* args.exclude (main.rs, run).  An argument is a path, here the list of   *)
(* its components, "/" being the root component of an absolute path.       *)
(***************************************************************************)
\* while let Ok(v) = p.strip_prefix("/") { p = v; }
RECURSIVE StripPrefix(_)
StripPrefix(p) ==
    IF p # <<>> /\ Head(p) = "/" THEN StripPrefix(Tail(p)) ELSE p

\* args.path.join(p) for a relative p, as a path of the model
Join(p) ==
    CASE p = <<>> -> "/"
      [] p = << "a" >> -> "/a"
      [] p = << "b" >> -> "/b"
      [] p = << "d" >> -> "/d"
      [] p = << "d", "e" >> -> "/d/e"
      [] p = << "d", "p" >> -> "/d/p"
      [] p = << "d", "x" >> -> "/d/x"
      [] p = << "d", "y" >> -> "/d/y"
      [] p = << "l" >> -> "/l"
      [] p = << "s" >> -> "/s"
      [] OTHER -> "/nowhere"

\* the HashSet run hands to spawn_scan
Excluded(exclude) == { Join(StripPrefix(p)) : p \in exclude }

\* the --exclude arguments the DiskScanner is studied with
ExcludeArgs ==
    { {},
      { << "/", "d" >> },
      { << "d" >> },
      { << "/", "d", "x" >> },
      { << "d", "y" >> },
      { << "/", "d", "p" >> },
      { << "/", "a" >> },
      { << "l" >> },
      { << "/", "b" >> },
      { << "/", "d" >>, << "/", "a" >> },
      { << "/", "d" >>, << "b" >> },
      { << "/", "elsewhere" >> },
      { << "/" >> } }

(***************************************************************************)
(* The pacman database (pkg.rs, list_installed).  An entry of the walk of  *)
(* <dbpath>/local is a directory or a file; a file has a name, can be read *)
(* or not, and holds sections.  pkg names the package a desc file is of.   *)
(***************************************************************************)
DbDir == [kind |-> "dir", name |-> "local", readable |-> TRUE, sections |-> {}, pkg |-> 0]
DbFile(name, readable, sections, pkg) ==
    [kind |-> "file", name |-> name, readable |-> readable, sections |-> sections, pkg |-> pkg]
\* the sections a desc file needs to yield a Package
DescSections == { "%NAME%", "%VERSION%", "%ARCH%" }

\* the database of the whole pipeline: one well-formed desc per package
Installed(n) == << DbDir >> \o [k \in 1..n |-> DbFile("desc", TRUE, DescSections, k)]

\* the files a database studied on its own is made of, for package k
DbFiles(k) ==
    { DbFile("desc", TRUE, DescSections, k),
      DbFile("desc", FALSE, DescSections, k),                  \* read_to_string fails
      DbFile("desc", TRUE, { "%NAME%", "%VERSION%" }, k),      \* no %ARCH% section
      DbFile("files", TRUE, {}, k) }

Databases ==
    { << DbDir >> \o files :
        files \in { f \in [1..NumDbFiles -> UNION { DbFiles(k) : k \in 1..NumDbFiles }] :
                        \A k \in 1..NumDbFiles : f[k].pkg = k } }

\* the items of the stream list_installed(dbpath), from entry i of the walk:
\* a `?` on an Err yields the error and ends the stream
RECURSIVE ListInstalled(_, _)
ListInstalled(walk, i) ==
    IF i > Len(walk) THEN <<>>
    ELSE LET entry == walk[i]
         IN  IF entry.kind = "error" THEN << [ok |-> FALSE, pkg |-> 0] >>
             ELSE IF entry.kind = "dir" THEN ListInstalled(walk, i + 1)
             ELSE IF entry.name # "desc" THEN ListInstalled(walk, i + 1)
             ELSE IF ~entry.readable THEN << [ok |-> FALSE, pkg |-> 0] >>
             ELSE IF DescSections \subseteq entry.sections
             THEN << [ok |-> TRUE, pkg |-> entry.pkg] >> \o ListInstalled(walk, i + 1)
             ELSE ListInstalled(walk, i + 1)
\* a one-shot channel: nothing sent yet, or its sender dropped without a value
NoTask == << >>
Dropped == << "dropped" >>

VARIABLES
    archive,        \* input: package -> what the archive answers per extension
    db,             \* input: the walk of <dbpath>/local
    tree,           \* input: the walk of the scan root
    excluded,       \* input: args.exclude rebased onto the scan root
    mtree_line,     \* input of mtree::parse
    mtree_entry,    \* result of mtree::parse
    manifest,       \* package -> the (path, sha256) pairs sent as TrustedFile for it
    event_rx,       \* the event bus: events sent and not yet received
    http_rx,        \* the Package channel
    lister_pc,      \* DbLister: "queue", "forward", "completed"
    lister_next,    \* DbLister: the item the stream yields next
    fetch_pc,       \* ManifestFetcher worker -> "recv", "emit", "exited"
    fetch_stream,   \* ManifestFetcher worker -> rest of the current stream
    scan_pos,       \* DiskScanner: index into tree of the entry next() yields
    scan_pc,        \* DiskScanner: "walk", "completed"
    hasher_pc,      \* hasher -> "advertise", "await", "exited"
    oneshot,        \* hasher -> NoTask, Dropped or the task sent on its handle
    app,            \* the Coordinator's App
    redraw,         \* run: the redraw flag
    coordinator,    \* run: "running", "done" (report written), "aborted"
    report,         \* the lines of the final report
    hist            \* history of the run, for stating properties

\* what no task of the pipeline writes
given == << archive, db, tree, excluded, mtree_line, mtree_entry >>

vars == << given, manifest, event_rx, http_rx, lister_pc, lister_next, fetch_pc,
           fetch_stream, scan_pos, scan_pc, hasher_pc, oneshot, app, redraw,
           coordinator, report, hist >>

\* the paths below the scan root: the keys of the maps of the model
Paths == { tree[i].path : i \in 2..Len(tree) }


(***************************************************************************)
(* Events of the bus (main.rs, enum Event).                                *)
(***************************************************************************)
PkgQueued == [type |-> "PkgQueued"]
PkgCompleted == [type |-> "PkgCompleted"]
TrustedFile(path, sha256) == [type |-> "TrustedFile", path |-> path, sha256 |-> sha256]
DiskFile(path) == [type |-> "DiskFile", path |-> path]
DiskPwd(path) == [type |-> "DiskPwd", path |-> path]
DiskError(err) == [type |-> "DiskError", err |-> err]
CompletedListInstalled == [type |-> "CompletedListInstalled"]
CompletedDiskScan == [type |-> "CompletedDiskScan"]
AvailableHasher(hasher) == [type |-> "AvailableHasher", hasher |-> hasher]
CompletedHashing(verdict, path) == [type |-> "CompletedHashing", verdict |-> verdict, path |-> path]

(***************************************************************************)
(* App (main.rs).                                                          *)
(***************************************************************************)
AppNew(num_hash_worker) ==
    [ num_hash_worker |-> num_hash_worker,
      retired_hashers |-> 0,
      completed_pkgs |-> 0,
      total_pkgs |-> 0,
      trusted_hashes |-> [p \in Paths |-> None],
      running_list_installed |-> TRUE,
      running_disk_scan |-> TRUE,
      waiting_for_data |-> {},
      waiting_for_hasher |-> <<>>,
      available_hashers |-> <<>>,
      files_passed |-> 0,
      files_flagged |-> {},
      disk_errors |-> <<>>,
      disk_pwd |-> None ]

\* Event::TrustedFile, with the duplicate overwriting the recorded digest
UpdateTrustedFileOverwrite(a, path, sha256) ==
    IF path \in a.waiting_for_data
    THEN [a EXCEPT !.waiting_for_data = @ \ {path},
                   !.waiting_for_hasher = Append(@, <<path, sha256>>),
                   !.trusted_hashes[path] = sha256]
    ELSE [a EXCEPT !.trusted_hashes[path] = sha256]

\* Event::TrustedFile that takes the path out of waiting_for_data without
\* queueing it for a hasher
UpdateTrustedFileNoEnqueue(a, path, sha256) ==
    IF a.trusted_hashes[path] # None
    THEN a
    ELSE [a EXCEPT !.waiting_for_data = @ \ {path},
                   !.trusted_hashes[path] = sha256]

\* Event::TrustedFile that queues the path and leaves it in waiting_for_data
UpdateTrustedFileKeepsWaiting(a, path, sha256) ==
    IF a.trusted_hashes[path] # None
    THEN a
    ELSE IF path \in a.waiting_for_data
         THEN [a EXCEPT !.waiting_for_hasher = Append(@, <<path, sha256>>),
                        !.trusted_hashes[path] = sha256]
         ELSE [a EXCEPT !.trusted_hashes[path] = sha256]

\* Event::TrustedFile(path, sha256)
UpdateTrustedFile(a, path, sha256) ==
    IF a.trusted_hashes[path] # None
    THEN a  \* warn!("Unexpected duplicate ...")
    ELSE IF path \in a.waiting_for_data
         THEN [a EXCEPT !.waiting_for_data = @ \ {path},
                        !.waiting_for_hasher = Append(@, <<path, sha256>>),
                        !.trusted_hashes[path] = sha256]
         ELSE [a EXCEPT !.trusted_hashes[path] = sha256]

\* Event::DiskFile, keeping the path in waiting_for_data also when its digest
\* is known
UpdateDiskFileAlwaysWaiting(a, path) ==
    IF a.trusted_hashes[path] # None
    THEN [a EXCEPT !.waiting_for_hasher = Append(@, <<path, a.trusted_hashes[path]>>),
                   !.waiting_for_data = @ \cup {path}]
    ELSE [a EXCEPT !.waiting_for_data = @ \cup {path}]

\* Event::DiskFile(path)
UpdateDiskFile(a, path) ==
    IF a.trusted_hashes[path] # None
    THEN [a EXCEPT !.waiting_for_hasher = Append(@, <<path, a.trusted_hashes[path]>>)]
    ELSE [a EXCEPT !.waiting_for_data = @ \cup {path}]

\* Event::CompletedHashing(hashed)
UpdateCompletedHashing(a, ev) ==
    IF ev.verdict = "Passed"
    THEN [a EXCEPT !.files_passed = @ + 1]
    ELSE [a EXCEPT !.files_flagged = @ \cup {ev.path}]

\* App::update, the state it leaves
Update(a, ev) ==
    CASE ev.type = "PkgQueued" -> [a EXCEPT !.total_pkgs = @ + 1]
      [] ev.type = "PkgCompleted" -> [a EXCEPT !.completed_pkgs = @ + 1]
      [] ev.type = "TrustedFile" -> UpdateTrustedFile(a, ev.path, ev.sha256)
      [] ev.type = "DiskFile" -> UpdateDiskFile(a, ev.path)
      [] ev.type = "DiskPwd" -> [a EXCEPT !.disk_pwd = ev.path]
      [] ev.type = "DiskError" -> [a EXCEPT !.disk_errors = Append(@, ev.err)]
      [] ev.type = "CompletedListInstalled" -> [a EXCEPT !.running_list_installed = FALSE]
      [] ev.type = "CompletedDiskScan" ->
            [a EXCEPT !.running_disk_scan = FALSE, !.disk_pwd = None]
      [] ev.type = "AvailableHasher" ->
            [a EXCEPT !.available_hashers = Append(@, ev.hasher)]
      [] ev.type = "CompletedHashing" -> UpdateCompletedHashing(a, ev)

\* App::redraw: the number of running hash workers, before it is stored in
\* a usize
RunningHashWorkers(a) ==
    a.num_hash_worker - a.retired_hashers - Len(a.available_hashers)

(***************************************************************************)
(* run: the dispatch step and the retirement step of one loop iteration.   *)
(* Both work on the pair (App, one-shot channels) and return it in a       *)
(* record [a, os, lost]; lost is set when hasher.send(task) fails.         *)
(***************************************************************************)
\* the dispatch step with the handle left at the head of available_hashers
RECURSIVE DispatchKeepsHandle(_, _, _)
DispatchKeepsHandle(a, os, receiver_alive) ==
    IF a.waiting_for_hasher # <<>> /\ a.available_hashers # <<>>
    THEN LET hasher == Head(a.available_hashers)
             task == Head(a.waiting_for_hasher)
             rest == [a EXCEPT !.waiting_for_hasher = Tail(@)]
         IN  DispatchKeepsHandle(rest, [os EXCEPT ![hasher] = task], receiver_alive)
    ELSE [a |-> a, os |-> os, lost |-> FALSE]

\* the dispatch step with the task left at the head of waiting_for_hasher
RECURSIVE DispatchKeepsTask(_, _, _)
DispatchKeepsTask(a, os, receiver_alive) ==
    IF a.waiting_for_hasher # <<>> /\ a.available_hashers # <<>>
    THEN LET hasher == Head(a.available_hashers)
             task == Head(a.waiting_for_hasher)
             rest == [a EXCEPT !.available_hashers = Tail(@)]
         IN  DispatchKeepsTask(rest, [os EXCEPT ![hasher] = task], receiver_alive)
    ELSE [a |-> a, os |-> os, lost |-> FALSE]

RECURSIVE Dispatch(_, _, _)
Dispatch(a, os, receiver_alive) ==
    IF a.waiting_for_hasher # <<>> /\ a.available_hashers # <<>>
    THEN LET hasher == Head(a.available_hashers)
             task == Head(a.waiting_for_hasher)
             rest == [a EXCEPT !.available_hashers = Tail(@),
                               !.waiting_for_hasher = Tail(@)]
         IN  IF hasher \in receiver_alive
             THEN Dispatch(rest, [os EXCEPT ![hasher] = task], receiver_alive)
             ELSE [a |-> rest, os |-> os, lost |-> TRUE]
    ELSE [a |-> a, os |-> os, lost |-> FALSE]

\* the condition of the retirement loop
MayRetire(a) ==
    /\ a.available_hashers # <<>>
    /\ a.waiting_for_hasher = <<>>
    /\ ~a.running_disk_scan
    /\ a.completed_pkgs = a.total_pkgs

\* the retirement step that drops the handle without counting it
RECURSIVE RetireUncounted(_, _)
RetireUncounted(a, os) ==
    IF MayRetire(a)
    THEN RetireUncounted([a EXCEPT !.available_hashers = Tail(@)],
                         [os EXCEPT ![Head(a.available_hashers)] = Dropped])
    ELSE [a |-> a, os |-> os]

\* the retirement step that counts every dropped handle twice
RECURSIVE RetireCountsTwice(_, _)
RetireCountsTwice(a, os) ==
    IF MayRetire(a)
    THEN RetireCountsTwice([a EXCEPT !.available_hashers = Tail(@),
                                     !.retired_hashers = @ + 2],
                           [os EXCEPT ![Head(a.available_hashers)] = Dropped])
    ELSE [a |-> a, os |-> os]

RECURSIVE Retire(_, _)
Retire(a, os) ==
    IF MayRetire(a)
    THEN Retire([a EXCEPT !.available_hashers = Tail(@),
                          !.retired_hashers = @ + 1],
                [os EXCEPT ![Head(a.available_hashers)] = Dropped])
    ELSE [a |-> a, os |-> os]


(***************************************************************************)
(* Hasher: disk.rs, verify_file and the event the worker sends for it.     *)
(***************************************************************************)
\* verify_file(path, sha256): "Err", "Ok(true)" or "Ok(false)"
VerifyFile(path, sha256) ==
    IF DiskContent(path) = "none" THEN "Err"      \* File::open / read fails
    ELSE IF ~IsHex(sha256) THEN "Err"             \* hex::decode fails
    ELSE IF sha256 = DiskContent(path) THEN "Ok(true)"
    ELSE "Ok(false)"

\* the event of a hasher that reports every file as verified
HashEventAlwaysPassed(path, sha256) == CompletedHashing("Passed", path)

\* the event a hasher sends after verify_file
HashEvent(path, sha256) ==
    LET verified == VerifyFile(path, sha256)
    IN  IF verified = "Err" THEN DiskError(path)
        ELSE IF verified = "Ok(true)" THEN CompletedHashing("Passed", path)
        ELSE CompletedHashing("Flagged", path)

(***************************************************************************)
(* The final report (main.rs, the tail of run).                            *)
(***************************************************************************)
\* the paths of S in BTreeSet iteration order
RECURSIVE InOrder(_, _)
InOrder(S, i) ==
    IF i > Len(SortedPaths) THEN <<>>
    ELSE (IF SortedPaths[i] \in S THEN << SortedPaths[i] >> ELSE <<>>)
         \o InOrder(S, i + 1)

Lines(tag, items) == [i \in 1..Len(items) |-> [tag |-> tag, item |-> items[i]]]

\* the report with the flagged files first
WriteReportFlaggedFirst(a) ==
    Lines("WRONG SHA256", InOrder(a.files_flagged, 1))
    \o Lines("NO SHA256", InOrder(a.waiting_for_data, 1))
    \o Lines("DISK ERROR", a.disk_errors)

WriteReport(a) ==
    Lines("NO SHA256", InOrder(a.waiting_for_data, 1))
    \o Lines("DISK ERROR", a.disk_errors)
    \o Lines("WRONG SHA256", InOrder(a.files_flagged, 1))

(***************************************************************************)
(* The initial state: channels created, every task spawned, App::new.      *)
(***************************************************************************)
ZeroCount == [p \in Paths |-> 0]

\* every channel created, every task spawned, App::new
Started ==
    /\ event_rx = <<>>
    /\ http_rx = <<>>
    /\ lister_pc = 1
    /\ lister_next = 1
    /\ fetch_pc = [i \in HttpWorkers |-> "recv"]
    /\ fetch_stream = [i \in HttpWorkers |-> <<>>]
    /\ scan_pos = 1
    /\ scan_pc = "walk"
    /\ hasher_pc = [w \in Hashers |-> "advertise"]
    /\ oneshot = [w \in Hashers |-> NoTask]
    /\ app = AppNew(NumHashWorker)
    /\ redraw = TRUE
    /\ coordinator = "running"
    /\ report = <<>>
    /\ hist = [ disk_seen |-> {}, disk_count |-> ZeroCount, trusted_seen |-> {},
                first_trusted |-> [p \in Paths |-> None],
                enqueued |-> ZeroCount, hashed |-> ZeroCount,
                hashed_with |-> [p \in Paths |-> {}],
                result |-> [p \in Paths |-> None],
                errors |-> <<>>,
                in_flight |-> 0,
                fetching |-> [i \in HttpWorkers |-> 0],
                requests |-> [pkg \in Pkgs |-> <<>>],
                claimed |-> [pkg \in Pkgs |-> 0],
                trusted_sent |-> [pkg \in Pkgs |-> 0],
                pkg_completed |-> [pkg \in Pkgs |-> 0] ]

\* mtree::parse is not under study
NoParse ==
    /\ mtree_line = None
    /\ mtree_entry = Unparsed

Init ==
    /\ \E catalog \in Catalogs : archive = [pkg \in Pkgs |-> ManifestOf(catalog, pkg)]
    /\ manifest = [pkg \in Pkgs |-> TrustedStream(archive[pkg])]
    /\ db = Installed(NumPkgs)
    /\ tree = Walk
    /\ excluded = {}
    /\ NoParse
    /\ Started

\* the model's bound on the length of the bus
BusHasRoom == Len(event_rx) < MaxBus

(***************************************************************************)
(* DbLister (pkg.rs, spawn_list_installed).                                *)
(***************************************************************************)
\* the two sends of the loop body, the other way round
ListerSendsForwardFirst == << "Package", "PkgQueued" >>

\* the two sends of the loop body for one package, in program order
ListerSends == << "PkgQueued", "Package" >>

\* the stream the task iterates over
PkgStream == ListInstalled(db, 1)

\* the Package channel has no receiver left: every worker's task has ended
WorkChannelClosed == \A i \in HttpWorkers : fetch_pc[i] = "exited"

\* lister_pc once the loop was left with `break`
LeftLoop == Len(ListerSends) + 1

\* one step of the loop body for the item lister_next of the stream: for a
\* Package one of the two sends (lister_pc is the position in ListerSends),
\* for an Err the warning
ListerSend ==
    /\ lister_pc \in 1..Len(ListerSends)
    /\ lister_next <= Len(PkgStream)
    /\ IF ~PkgStream[lister_next].ok
       THEN /\ lister_next' = lister_next + 1
            /\ UNCHANGED << event_rx, http_rx, lister_pc >>
       ELSE IF ListerSends[lister_pc] = "Package" /\ WorkChannelClosed
       THEN /\ lister_pc' = LeftLoop      \* warn!("All http workers have crashed"); break
            /\ UNCHANGED << event_rx, http_rx, lister_next >>
       ELSE /\ IF ListerSends[lister_pc] = "PkgQueued"
               THEN /\ BusHasRoom
                    /\ event_rx' = Append(event_rx, PkgQueued)
                    /\ UNCHANGED http_rx
               ELSE /\ http_rx' = Append(http_rx, PkgStream[lister_next].pkg)
                    /\ UNCHANGED event_rx
            /\ IF lister_pc = Len(ListerSends)
               THEN lister_pc' = 1 /\ lister_next' = lister_next + 1
               ELSE lister_pc' = lister_pc + 1 /\ UNCHANGED lister_next
    /\ UNCHANGED << given, manifest, fetch_pc, fetch_stream, scan_pos, scan_pc, hasher_pc,
                    oneshot, app, redraw, coordinator, report, hist >>

\* the loop is over, the stream at its end or left with `break`:
\* CompletedListInstalled, then both senders are dropped
ListerComplete ==
    /\ \/ lister_pc = 1 /\ lister_next > Len(PkgStream)
       \/ lister_pc = LeftLoop
    /\ BusHasRoom
    /\ event_rx' = Append(event_rx, CompletedListInstalled)
    /\ lister_pc' = 0
    /\ UNCHANGED << given, manifest, http_rx, lister_next, fetch_pc, fetch_stream, scan_pos,
                    scan_pc, hasher_pc, oneshot, app, redraw, coordinator, report, hist >>

ListerDone == lister_pc = 0

(***************************************************************************)
(* ManifestFetcher workers (fetch.rs, spawn_workers).  fetch_stream is the *)
(* stream of fetch_trusted_hashes after the worker's path filter.          *)
(* The workers share the receiver behind a mutex, so one worker at a time  *)
(* waits in recv(); the workers being interchangeable, the holder of the   *)
(* lock is taken to be the lowest-numbered worker that wants it.           *)
(***************************************************************************)
LockHolder(i) ==
    /\ fetch_pc[i] = "recv"
    /\ \A j \in HttpWorkers : fetch_pc[j] = "recv" => i <= j

FetchRecv(i) ==
    /\ LockHolder(i)
    /\ http_rx # <<>>
    /\ fetch_stream' = [fetch_stream EXCEPT ![i] = TrustedStream(archive[Head(http_rx)])]
    /\ http_rx' = Tail(http_rx)
    /\ fetch_pc' = [fetch_pc EXCEPT ![i] = "emit"]
    /\ hist' = [hist EXCEPT !.fetching[i] = Head(http_rx),
                            !.requests[Head(http_rx)] =
                                @ \o Requests(archive[Head(http_rx)], 1),
                            !.claimed[Head(http_rx)] = @ + 1]
    /\ UNCHANGED << given, manifest, event_rx, lister_pc, lister_next, scan_pos, scan_pc,
                    hasher_pc, oneshot, app, redraw, coordinator, report >>

FetchEmit(i) ==
    /\ fetch_pc[i] = "emit"
    /\ fetch_stream[i] # <<>>
    /\ BusHasRoom
    /\ event_rx' = Append(event_rx,
                          TrustedFile(Head(fetch_stream[i])[1], Head(fetch_stream[i])[2]))
    /\ fetch_stream' = [fetch_stream EXCEPT ![i] = Tail(@)]
    /\ hist' = [hist EXCEPT !.trusted_sent[hist.fetching[i]] = @ + 1]
    /\ UNCHANGED << given, manifest, http_rx, lister_pc, lister_next, fetch_pc, scan_pos,
                    scan_pc, hasher_pc, oneshot, app, redraw, coordinator, report >>

\* the end of the stream without the PkgCompleted
FetchCompleteSilent(i) ==
    /\ fetch_pc[i] = "emit"
    /\ fetch_stream[i] = <<>>
    /\ fetch_pc' = [fetch_pc EXCEPT ![i] = "recv"]
    /\ UNCHANGED << given, manifest, event_rx, http_rx, lister_pc, lister_next,
                    fetch_stream, scan_pos, scan_pc, hasher_pc, oneshot, app, redraw,
                    coordinator, report, hist >>

FetchComplete(i) ==
    /\ fetch_pc[i] = "emit"
    /\ fetch_stream[i] = <<>>
    /\ BusHasRoom
    /\ event_rx' = Append(event_rx, PkgCompleted)
    /\ fetch_pc' = [fetch_pc EXCEPT ![i] = "recv"]
    /\ hist' = [hist EXCEPT !.pkg_completed[hist.fetching[i]] = @ + 1,
                            !.fetching[i] = 0]
    /\ UNCHANGED << given, manifest, http_rx, lister_pc, lister_next, fetch_stream, scan_pos,
                    scan_pc, hasher_pc, oneshot, app, redraw, coordinator, report >>

\* lock.recv() returns None: the channel is empty and its sender dropped
FetchExit(i) ==
    /\ LockHolder(i)
    /\ http_rx = <<>>
    /\ ListerDone
    /\ fetch_pc' = [fetch_pc EXCEPT ![i] = "exited"]
    /\ UNCHANGED << given, manifest, event_rx, http_rx, lister_pc, lister_next, fetch_stream,
                    scan_pos, scan_pc, hasher_pc, oneshot, app, redraw, coordinator,
                    report, hist >>

\* the worker's task ends while it has no Package in hand (a panic of the
\* task: reqwest::Client::new() panics when the TLS backend or the resolver
\* cannot be set up): its clone of the receiver and its bus sender are dropped
FetchCrash(i) ==
    /\ fetch_pc[i] = "recv"
    /\ fetch_pc' = [fetch_pc EXCEPT ![i] = "exited"]
    /\ UNCHANGED << given, manifest, event_rx, http_rx, lister_pc, lister_next, fetch_stream,
                    scan_pos, scan_pc, hasher_pc, oneshot, app, redraw, coordinator,
                    report, hist >>

(***************************************************************************)
(* DiskScanner (disk.rs, the walker task of spawn_scan).                   *)
(***************************************************************************)
\* walkdir's skip_current_dir() with the entry at pos the last one yielded,
\* without the pop of the directory list
SkipNothing(walk, pos) == pos + 1

\* walkdir's skip_current_dir() with the entry at pos the last one yielded:
\* the directory list on top of the stack is popped, which is the list of
\* the entry itself if it is a directory (pushed when it was yielded) and
\* the list the entry was read from otherwise.  The result is the position
\* of the entry next() yields then.
SkipCurrentDir(walk, pos) ==
    LET top == IF walk[pos].type = "dir" THEN walk[pos].depth + 1 ELSE walk[pos].depth
        beyond == { j \in (pos + 1)..Len(walk) : walk[j].depth < top }
    IN  IF top = 0 THEN pos + 1     \* the stack is empty, nothing is popped
        ELSE IF beyond = {} THEN Len(walk) + 1
        ELSE CHOOSE j \in beyond : \A k \in beyond : j <= k

\* the anyhow::Error of read_disk for an entry next() yields as Err
AccessError(path) == "Failed to access disk: " \o path

\* one iteration of the walker's loop: next(), read_disk, the event
ScanEntry ==
    /\ scan_pc = "walk"
    /\ scan_pos <= Len(tree)
    /\ LET entry == tree[scan_pos]
       IN  IF entry.type = "error"
           THEN /\ scan_pos' = scan_pos + 1            \* Err(err) => Event::DiskError(err)
                /\ BusHasRoom
                /\ event_rx' = Append(event_rx, DiskError(AccessError(entry.path)))
           ELSE IF entry.path \in excluded
           THEN /\ scan_pos' = SkipCurrentDir(tree, scan_pos)    \* Ok(None) => continue
                /\ UNCHANGED event_rx
           ELSE /\ scan_pos' = scan_pos + 1
                /\ IF entry.type = "dir"
                   THEN BusHasRoom /\ event_rx' = Append(event_rx, DiskPwd(entry.path))
                   ELSE IF entry.type = "symlink"
                   THEN UNCHANGED event_rx      \* ignore this for now; continue
                   ELSE BusHasRoom /\ event_rx' = Append(event_rx, DiskFile(entry.path))
    /\ UNCHANGED << given, manifest, http_rx, lister_pc, lister_next, fetch_pc, fetch_stream,
                    scan_pc, hasher_pc, oneshot, app, redraw, coordinator, report, hist >>

\* the end of the walk with the task going round its loop once more
ScanCompleteStays ==
    /\ scan_pc = "walk"
    /\ scan_pos > Len(tree)
    /\ BusHasRoom
    /\ event_rx' = Append(event_rx, CompletedDiskScan)
    /\ UNCHANGED << given, manifest, http_rx, lister_pc, lister_next, fetch_pc, fetch_stream,
                    scan_pos, scan_pc, hasher_pc, oneshot, app, redraw, coordinator,
                    report, hist >>

\* next() returned None: CompletedDiskScan, and the task ends
ScanComplete ==
    /\ scan_pc = "walk"
    /\ scan_pos > Len(tree)
    /\ BusHasRoom
    /\ event_rx' = Append(event_rx, CompletedDiskScan)
    /\ scan_pc' = "completed"
    /\ UNCHANGED << given, manifest, http_rx, lister_pc, lister_next, fetch_pc, fetch_stream,
                    scan_pos, hasher_pc, oneshot, app, redraw, coordinator, report, hist >>

(***************************************************************************)
(* Hasher workers (disk.rs, the worker loop of spawn_scan).                *)
(***************************************************************************)
\* a fresh one-shot channel; AvailableHasher(tx) goes onto the bus
HasherAdvertise(w) ==
    /\ hasher_pc[w] = "advertise"
    /\ BusHasRoom
    /\ event_rx' = Append(event_rx, AvailableHasher(w))
    /\ oneshot' = [oneshot EXCEPT ![w] = NoTask]
    /\ hasher_pc' = [hasher_pc EXCEPT ![w] = "await"]
    /\ UNCHANGED << given, manifest, http_rx, lister_pc, lister_next, fetch_pc, fetch_stream,
                    scan_pos, scan_pc, app, redraw, coordinator, report, hist >>

\* rx.await returned a task: verify the file and send the result
HasherVerify(w) ==
    /\ hasher_pc[w] = "await"
    /\ oneshot[w] \notin {NoTask, Dropped}
    /\ BusHasRoom
    /\ LET path == oneshot[w][1]
           sha256 == oneshot[w][2]
       IN  /\ event_rx' = Append(event_rx, HashEvent(path, sha256))
           /\ hist' = [hist EXCEPT !.hashed[path] = @ + 1,
                                   !.hashed_with[path] = @ \cup {sha256},
                                   !.result[path] =
                                       IF HashEvent(path, sha256).type = "DiskError"
                                       THEN "DiskError"
                                       ELSE HashEvent(path, sha256).verdict,
                                   !.in_flight = @ - 1]
    /\ oneshot' = [oneshot EXCEPT ![w] = NoTask]
    /\ hasher_pc' = [hasher_pc EXCEPT ![w] = "advertise"]
    /\ UNCHANGED << given, manifest, http_rx, lister_pc, lister_next, fetch_pc, fetch_stream,
                    scan_pos, scan_pc, app, redraw, coordinator, report >>

\* a worker that advertises itself again after its handle was dropped
HasherExitReadvertise(w) ==
    /\ hasher_pc[w] = "await"
    /\ oneshot[w] = Dropped
    /\ hasher_pc' = [hasher_pc EXCEPT ![w] = "advertise"]
    /\ UNCHANGED << given, manifest, event_rx, http_rx, lister_pc, lister_next, fetch_pc,
                    fetch_stream, scan_pos, scan_pc, oneshot, app, redraw, coordinator,
                    report, hist >>

\* rx.await failed: the handle was dropped
HasherExit(w) ==
    /\ hasher_pc[w] = "await"
    /\ oneshot[w] = Dropped
    /\ hasher_pc' = [hasher_pc EXCEPT ![w] = "exited"]
    /\ UNCHANGED << given, manifest, event_rx, http_rx, lister_pc, lister_next, fetch_pc,
                    fetch_stream, scan_pos, scan_pc, oneshot, app, redraw, coordinator,
                    report, hist >>


\* the worker's task ends while it awaits its task (a panic of the runtime's
\* worker thread, the task aborted): its one-shot receiver is dropped
HasherCrash(w) ==
    /\ coordinator = "running"
    /\ hasher_pc[w] = "await"
    /\ oneshot[w] = NoTask
    /\ hasher_pc' = [hasher_pc EXCEPT ![w] = "exited"]
    /\ UNCHANGED << given, manifest, event_rx, http_rx, lister_pc, lister_next, fetch_pc,
                    fetch_stream, scan_pos, scan_pc, oneshot, app, redraw, coordinator,
                    report, hist >>

(***************************************************************************)
(* Coordinator (main.rs, the loop of run).  One action is one iteration of *)
(* the loop: the select! branch, the dispatch step, the retirement step    *)
(* and the redraw.                                                         *)
(***************************************************************************)
\* the loop left as soon as the scanner is done and the bus is drained
BusClosedAfterScan == scan_pc = "completed"

\* every sender of the event bus has been dropped
BusClosed ==
    /\ ListerDone
    /\ \A i \in HttpWorkers : fetch_pc[i] = "exited"
    /\ scan_pc = "completed"
    /\ \A w \in Hashers : hasher_pc[w] = "exited"

\* the hashers whose one-shot receiver still exists
ReceiverAlive == { w \in Hashers : hasher_pc[w] # "exited" }

\* the rest of the loop body after the select!, from App a1
LoopTail(a1) ==
    LET d == Dispatch(a1, oneshot, ReceiverAlive)
        r == IF d.lost THEN [a |-> d.a, os |-> d.os] ELSE Retire(d.a, d.os)
    IN  [ a |-> r.a, os |-> r.os, lost |-> d.lost,
          dispatched |-> Len(a1.waiting_for_hasher) - Len(d.a.waiting_for_hasher) ]

\* what the history records of the event just processed
Record(h, ev, before, after) ==
    LET h1 == IF ev.type = "DiskFile"
              THEN [h EXCEPT !.disk_seen = @ \cup {ev.path},
                             !.disk_count[ev.path] = @ + 1]
              ELSE IF ev.type = "TrustedFile"
              THEN [h EXCEPT !.trusted_seen = @ \cup {ev.path},
                             !.first_trusted[ev.path] =
                                 IF @ = None THEN ev.sha256 ELSE @]
              ELSE IF ev.type = "DiskError"
              THEN [h EXCEPT !.errors = Append(@, ev.err)]
              ELSE h
        n == Len(after.waiting_for_hasher)
    IN  IF n > Len(before.waiting_for_hasher)
        THEN [h1 EXCEPT !.enqueued[after.waiting_for_hasher[n][1]] = @ + 1]
        ELSE h1

\* event = event_rx.recv() returned Some(event)
CoordRecv ==
    /\ coordinator = "running"
    /\ event_rx # <<>>
    /\ LET ev == Head(event_rx)
           a1 == Update(app, ev)
           t == LoopTail(a1)
       IN  /\ app' = t.a
           /\ oneshot' = t.os
           /\ coordinator' = IF t.lost THEN "aborted" ELSE "running"
           /\ hist' = [Record(hist, ev, app, a1) EXCEPT !.in_flight = @ + t.dispatched]
    /\ event_rx' = Tail(event_rx)
    /\ redraw' = FALSE
    /\ UNCHANGED << given, manifest, http_rx, lister_pc, lister_next, fetch_pc, fetch_stream,
                    scan_pos, scan_pc, hasher_pc, report >>

\* interval.tick()
CoordTick ==
    /\ coordinator = "running"
    /\ LET t == LoopTail(app)
       IN  /\ app' = t.a
           /\ oneshot' = t.os
           /\ coordinator' = IF t.lost THEN "aborted" ELSE "running"
           /\ hist' = [hist EXCEPT !.in_flight = @ + t.dispatched]
    /\ redraw' = FALSE
    /\ UNCHANGED << given, manifest, event_rx, http_rx, lister_pc, lister_next, fetch_pc,
                    fetch_stream, scan_pos, scan_pc, hasher_pc, report >>

\* event_rx.recv() returned None: leave the loop and write the report
CoordClosed ==
    /\ coordinator = "running"
    /\ event_rx = <<>>
    /\ BusClosed
    /\ coordinator' = "done"
    /\ report' = WriteReport(app)
    /\ UNCHANGED << given, manifest, event_rx, http_rx, lister_pc, lister_next, fetch_pc,
                    fetch_stream, scan_pos, scan_pc, hasher_pc, oneshot, app, redraw,
                    hist >>

(***************************************************************************)
(* The specifications.                                                     *)
(***************************************************************************)
\* every step but the timer tick
Work ==
    \/ ListerSend
    \/ ListerComplete
    \/ \E i \in HttpWorkers : FetchRecv(i)
    \/ \E i \in HttpWorkers : FetchEmit(i)
    \/ \E i \in HttpWorkers : FetchComplete(i)
    \/ \E i \in HttpWorkers : FetchExit(i)
    \/ ScanEntry
    \/ ScanComplete
    \/ \E w \in Hashers : HasherAdvertise(w)
    \/ \E w \in Hashers : HasherVerify(w)
    \/ \E w \in Hashers : HasherExit(w)
    \/ CoordRecv
    \/ CoordClosed

Next ==
    \/ ListerSend
    \/ ListerComplete
    \/ \E i \in HttpWorkers : FetchRecv(i)
    \/ \E i \in HttpWorkers : FetchEmit(i)
    \/ \E i \in HttpWorkers : FetchComplete(i)
    \/ \E i \in HttpWorkers : FetchExit(i)
    \/ ScanEntry
    \/ ScanComplete
    \/ \E w \in Hashers : HasherAdvertise(w)
    \/ \E w \in Hashers : HasherVerify(w)
    \/ \E w \in Hashers : HasherExit(w)
    \/ CoordRecv
    \/ CoordTick
    \/ CoordClosed

Spec == Init /\ [][Next]_vars

\* every task that can take a step eventually takes one
FairSpec == Spec /\ WF_vars(Work)

\* The pipeline with hashers that may be lost.  run returns as soon as a
\* dispatch fails, and the process ends with it.
NextCrash ==
    \/ coordinator # "aborted" /\ Next
    \/ \E w \in Hashers : HasherCrash(w)

SpecCrash == Init /\ [][NextCrash]_vars

\* what run returns once it has returned: Ok(()) after the report, and
\* Ok(()) from the dispatch step when hasher.send(task) failed
RunResult ==
    CASE coordinator = "done" -> "Ok"
      [] coordinator = "aborted" -> "Ok"
      [] OTHER -> None

\* main returns run's Result: the exit status of the process
ExitStatus(result) == IF result = "Ok" THEN 0 ELSE 1

\* DbLister on its own, over every database of Databases, with the
\* Coordinator receiving its events; no fetcher takes a Package yet.
InitDb ==
    /\ db \in Databases
    /\ archive = [pkg \in Pkgs |-> Served(NotFound, NotFound)]
    /\ manifest = [pkg \in Pkgs |-> TrustedStream(archive[pkg])]
    /\ tree = Walk
    /\ excluded = {}
    /\ NoParse
    /\ Started

NextDb ==
    \/ ListerSend
    \/ ListerComplete
    \/ CoordRecv

SpecDb == InitDb /\ [][NextDb]_vars

\* DbLister over every database of Databases, with workers that may end
\* before they take a Package and the Coordinator receiving the events.
NextDbCrash ==
    \/ ListerSend
    \/ ListerComplete
    \/ CoordRecv
    \/ \E i \in HttpWorkers : FetchCrash(i)

SpecDbCrash == InitDb /\ [][NextDbCrash]_vars

\* DbLister and the ManifestFetcher workers on their own, over every archive
\* of FetchCatalogs, with the Coordinator receiving their events.
InitFetch ==
    /\ \E catalog \in FetchCatalogs : archive = [pkg \in Pkgs |-> ManifestOf(catalog, pkg)]
    /\ manifest = [pkg \in Pkgs |-> TrustedStream(archive[pkg])]
    /\ db = Installed(NumPkgs)
    /\ tree = Walk
    /\ excluded = {}
    /\ NoParse
    /\ Started

NextFetch ==
    \/ ListerSend
    \/ ListerComplete
    \/ \E i \in HttpWorkers : FetchRecv(i)
    \/ \E i \in HttpWorkers : FetchEmit(i)
    \/ \E i \in HttpWorkers : FetchComplete(i)
    \/ \E i \in HttpWorkers : FetchExit(i)
    \/ CoordRecv

SpecFetch == InitFetch /\ [][NextFetch]_vars

\* DiskScanner on its own, on ScanTree and under every exclusion of
\* ExcludeArgs, with the Coordinator receiving its events.
InitScan ==
    /\ tree = ScanTree
    /\ \E exclude \in ExcludeArgs : excluded = Excluded(exclude)
    /\ archive = [pkg \in Pkgs |-> Served(NotFound, NotFound)]
    /\ manifest = [pkg \in Pkgs |-> TrustedStream(archive[pkg])]
    /\ db = Installed(NumPkgs)
    /\ NoParse
    /\ Started

NextScan ==
    \/ ScanEntry
    \/ ScanComplete
    \/ CoordRecv

SpecScan == InitScan /\ [][NextScan]_vars

\* mtree::parse on its own, over every line of MtreeLines.
ParseLine ==
    /\ mtree_entry = Unparsed
    /\ mtree_entry' = Parse(mtree_line)
    /\ UNCHANGED << archive, db, tree, excluded, mtree_line, manifest, event_rx, http_rx,
                    lister_pc, lister_next, fetch_pc, fetch_stream, scan_pos, scan_pc,
                    hasher_pc, oneshot, app, redraw, coordinator, report, hist >>

InitParse ==
    /\ mtree_line \in MtreeLines
    /\ mtree_entry = Unparsed
    /\ archive = [pkg \in Pkgs |-> Served(NotFound, NotFound)]
    /\ manifest = [pkg \in Pkgs |-> TrustedStream(archive[pkg])]
    /\ db = Installed(NumPkgs)
    /\ tree = Walk
    /\ excluded = {}
    /\ Started

NextParse == ParseLine

SpecParse == InitParse /\ [][NextParse]_vars


(***************************************************************************)
(* Properties.                                                             *)
(***************************************************************************)
HasTask(w) == oneshot[w] \notin {NoTask, Dropped}
Queued(q) == { q[i] : i \in 1..Len(q) }
NoSha256Lines == { report[i].item : i \in { j \in 1..Len(report) : report[j].tag = "NO SHA256" } }
RECURSIVE SumOver(_, _)
SumOver(f, S) ==
    IF S = {} THEN 0
    ELSE LET x == CHOOSE y \in S : TRUE IN f[x] + SumOver(f, S \ {x})

\* C1: waiting_for_data is exactly the set of paths received as DiskFile and
\* never as TrustedFile, and at exit the [NO SHA256] lines of the report are
\* exactly those paths.
C1_WaitingForData ==
    /\ app.waiting_for_data = hist.disk_seen \ hist.trusted_seen
    /\ coordinator = "done" => NoSha256Lines = hist.disk_seen \ hist.trusted_seen

\* C1 witness: the run is over, /a met its digest and /b is reported untracked
C1_Witness ==
    /\ coordinator = "done"
    /\ hist.disk_seen = {"/a", "/b"}
    /\ hist.trusted_seen = {"/a"}
    /\ NoSha256Lines = {"/b"}

\* The run in which the Coordinator receives every TrustedFile (package by
\* package) before every DiskFile, and then every hash result.
RECURSIVE Fold(_, _)
Fold(a, events) ==
    IF events = <<>> THEN a ELSE Fold(Update(a, Head(events)), Tail(events))

RECURSIVE TrustedEvents(_)
TrustedEvents(pkg) ==
    IF pkg > NumPkgs THEN <<>>
    ELSE [i \in 1..Len(manifest[pkg]) |->
             TrustedFile(manifest[pkg][i][1], manifest[pkg][i][2])]
         \o TrustedEvents(pkg + 1)

RECURSIVE DiskEvents(_)
DiskEvents(pos) ==
    IF pos > Len(Walk) THEN <<>>
    ELSE (IF Walk[pos].type = "file" THEN << DiskFile(Walk[pos].path) >> ELSE <<>>)
         \o DiskEvents(pos + 1)

TrustedFirstRun ==
    LET matched == Fold(AppNew(NumHashWorker), TrustedEvents(1) \o DiskEvents(1))
        results == [i \in 1..Len(matched.waiting_for_hasher) |->
                       HashEvent(matched.waiting_for_hasher[i][1],
                                 matched.waiting_for_hasher[i][2])]
    IN  Fold(matched, results)

FinalTuple(a) == << a.files_passed, a.files_flagged, a.waiting_for_data >>

\* C2: order independence: at exit the tuple (files_passed, files_flagged,
\* waiting_for_data) is the one every other arrival order of the same events
\* gives, in particular the order "every TrustedFile, then every DiskFile".
C2_OrderIndependence ==
    coordinator = "done" => FinalTuple(app) = FinalTuple(TrustedFirstRun)

\* C3: once a hasher handle has been retired, no task is enqueued into
\* waiting_for_hasher any more.
C3_NoWorkAfterRetirement ==
    [][app.retired_hashers > 0 => (hist.enqueued)' = hist.enqueued]_vars

\* C4: no hasher handle is retired before CompletedListInstalled has been
\* processed.
C4_RetirementGated ==
    app.retired_hashers > 0 => ~app.running_list_installed

\* C5: termination: under fair scheduling the bus closes and the loop exits,
\* and at exit retired_hashers + |available_hashers| = N_HASH.
C5_Termination ==
    /\ <>(coordinator = "done")
    /\ [](coordinator = "done" =>
            app.retired_hashers + Len(app.available_hashers) = NumHashWorker)

\* C5 witness: the loop has exited with every hasher retired
C5_Witness ==
    /\ coordinator = "done"
    /\ BusClosed
    /\ app.retired_hashers = NumHashWorker

\* C6: concurrency bound: at most N_HASH tasks are dispatched and not yet
\* answered, and every such task is held by its own worker, one that has
\* advertised itself, awaits the reply and whose handle has left
\* available_hashers.
C6_ConcurrencyBound ==
    /\ hist.in_flight <= NumHashWorker
    /\ hist.in_flight = Cardinality({ w \in Hashers : HasTask(w) })
    /\ \A w \in Hashers :
          HasTask(w) => /\ hasher_pc[w] = "await"
                        /\ w \notin Queued(app.available_hashers)

\* C6 witness: every hasher holds a task while another task waits
C6_Witness ==
    /\ \A w \in Hashers : HasTask(w)
    /\ app.waiting_for_hasher # <<>>

\* C7: no double-hash: a path is enqueued into waiting_for_hasher at most
\* once and hashed at most once, and no more tasks are dispatched than were
\* enqueued.
C7_NoDoubleHash ==
    /\ \A p \in Paths : hist.enqueued[p] <= 1 /\ hist.hashed[p] <= hist.enqueued[p]
    /\ SumOver(hist.hashed, Paths) + hist.in_flight + Len(app.waiting_for_hasher)
          = SumOver(hist.enqueued, Paths)

\* C7 witness: /a was hashed once although two packages sent a TrustedFile
\* for it, both processed
C7_Witness ==
    /\ hist.hashed["/a"] = 1
    /\ app.completed_pkgs = NumPkgs
    /\ \A pkg \in {1, 2} : manifest[pkg] # <<>> /\ manifest[pkg][1][1] = "/a"

\* C8: the digest recorded for a path is the first one received and never
\* changes; a TrustedFile for a path that has a digest leaves trusted_hashes,
\* waiting_for_data and waiting_for_hasher as they are; a file is hashed
\* against the first digest only.
C8_FirstDigestKept ==
    /\ \A p \in Paths : app.trusted_hashes[p] = hist.first_trusted[p]
    /\ \A p \in Paths : hist.hashed_with[p] \subseteq {hist.first_trusted[p]}
    /\ \A i \in 1..Len(event_rx) :
          LET ev == event_rx[i]
          IN  (ev.type = "TrustedFile" /\ app.trusted_hashes[ev.path] # None)
              => LET after == Update(app, ev)
                 IN  /\ after.trusted_hashes = app.trusted_hashes
                     /\ after.waiting_for_data = app.waiting_for_data
                     /\ after.waiting_for_hasher = app.waiting_for_hasher

\* C8 witness: both packages claimed /a, with different digests, both were
\* processed and /a was hashed
C8_Witness ==
    /\ hist.hashed["/a"] = 1
    /\ app.completed_pkgs = NumPkgs
    /\ manifest[1] = << <<"/a", "aa">> >>
    /\ manifest[2] = << <<"/a", "bb">> >>

\* C9: completed_pkgs <= total_pkgs in every state.
C9_CompletedAtMostTotal == app.completed_pkgs <= app.total_pkgs

\* C9 witness: every package was queued and completed
C9_Witness ==
    /\ app.total_pkgs = NumPkgs
    /\ app.completed_pkgs = NumPkgs

\* C10: when the loop exits because the bus has closed, completed_pkgs =
\* total_pkgs and CompletedDiskScan has been processed.
C10_TerminalState ==
    coordinator = "done" =>
        /\ app.completed_pkgs = app.total_pkgs
        /\ ~app.running_disk_scan

\* C10 witness: the loop has exited after packages were completed
C10_Witness ==
    /\ coordinator = "done"
    /\ app.completed_pkgs > 0
    /\ report # <<>>

\* C11: HasherLost is fatal: when a dispatch fails to fulfil a hasher handle
\* the run aborts and the process ends with a non-zero exit status.
C11_HasherLostFatal ==
    coordinator = "aborted" => ExitStatus(RunResult) # 0

\* a desc file that can be read and carries NAME, VERSION and ARCH
Carries(entry) ==
    /\ entry.kind = "file"
    /\ entry.name = "desc"
    /\ entry.readable
    /\ DescSections \subseteq entry.sections

\* the PkgQueued events sent so far
PkgQueuedSent ==
    app.total_pkgs + Cardinality({ i \in 1..Len(event_rx) : event_rx[i] = PkgQueued })

\* C12: a desc file that cannot be read makes DbLister skip that package
\* only: when DbLister is done, every desc file of the database that carries
\* NAME, VERSION and ARCH has produced a PkgQueued and was forwarded, whether
\* the walk visits it before or after a failing file.
C12_OnlyFailingSkipped ==
    ListerDone =>
        LET carrying == { i \in 1..Len(db) : Carries(db[i]) }
        IN  /\ \A i \in carrying : db[i].pkg \in Queued(http_rx)
            /\ PkgQueuedSent = Cardinality(carrying)

\* the paths sent as DiskFile so far
DiskFileSent ==
    hist.disk_seen \cup { event_rx[i].path :
                            i \in { j \in 1..Len(event_rx) : event_rx[j].type = "DiskFile" } }

\* C13: DiskScanner emits DiskFile for regular files only: an entry that is
\* a symlink or of another non-regular, non-directory type (device node,
\* FIFO, socket) produces no DiskFile, never enters waiting_for_data and
\* never appears in the report.
C13_RegularFilesOnly ==
    \A i \in 1..Len(tree) :
        tree[i].type \notin {"file", "dir"} =>
            /\ tree[i].path \notin DiskFileSent
            /\ tree[i].path \notin app.waiting_for_data
            /\ \A k \in 1..Len(WriteReport(app)) : WriteReport(app)[k].item # tree[i].path

\* entry j of the walk lies below the directory at i
Below(walk, j, i) ==
    /\ walk[i].type = "dir"
    /\ j > i
    /\ \A k \in (i + 1)..j : walk[k].depth > walk[i].depth

\* the entries of the tree that are excluded directories
ExcludedDirs == { i \in 1..Len(tree) : tree[i].type = "dir" /\ tree[i].path \in excluded }

\* C14: exclusion: for an exclude entry that names a directory under the
\* root, DiskScanner does not descend into the directory (next() yields no
\* entry below it) and no DiskFile is sent for a path below it.
C14_Exclusion ==
    \A i \in ExcludedDirs : \A j \in 1..Len(tree) :
        Below(tree, j, i) =>
            /\ scan_pos # j
            /\ tree[j].path \notin DiskFileSent

\* C14 witness: /d is excluded, the scan is over and went on past /d to /b
C14_Witness ==
    /\ tree = ScanTree
    /\ "/d" \in excluded
    /\ ~app.running_disk_scan
    /\ "/b" \in hist.disk_seen

\* no extension of the package is answered with success
FetchFails(pkg) == \A i \in 1..Len(Extensions) : archive[pkg][Extensions[i]].status # "200"

\* the workers that hold the package: received it, PkgCompleted not yet sent
Holders(pkg) == { i \in HttpWorkers : fetch_pc[i] = "emit" /\ hist.fetching[i] = pkg }

\* C15: every Package forwarded is claimed by exactly one worker and gives
\* exactly one PkgCompleted, whether a manifest was emitted, both extensions
\* were 404 or the fetch failed; a failing package gives no TrustedFile and
\* the worker goes on to later packages (it leaves only when the channel is
\* closed and empty).
C15_OnePkgCompleted ==
    /\ \A pkg \in Pkgs :
          /\ hist.claimed[pkg] <= 1
          /\ pkg \in Queued(http_rx) => hist.claimed[pkg] = 0
          /\ Cardinality(Holders(pkg)) + hist.pkg_completed[pkg] = hist.claimed[pkg]
          /\ FetchFails(pkg) => hist.trusted_sent[pkg] = 0
    /\ \A i \in HttpWorkers : fetch_pc[i] = "exited" => ListerDone /\ http_rx = <<>>
    /\ (\A i \in HttpWorkers : fetch_pc[i] = "exited") =>
          \A pkg \in Pkgs : hist.claimed[pkg] = 1 /\ hist.pkg_completed[pkg] = 1

\* C15 witness: the first package had no manifest (404 twice); the worker
\* that completed it has gone on to the second package and sent its
\* TrustedFile
C15_Witness ==
    /\ FetchFails(1)
    /\ hist.pkg_completed[1] = 1
    /\ hist.fetching[1] = 2
    /\ hist.trusted_sent[2] = 1

\* the digests that occur in the model
Digests == { "aa", "bb", "cc", "zz" }

\* the result event the claim names for a task
ExpectedEvent(path, sha256) ==
    IF DiskContent(path) = "none" \/ ~IsHex(sha256) THEN DiskError(path)
    ELSE IF sha256 # DiskContent(path) THEN CompletedHashing("Flagged", path)
    ELSE CompletedHashing("Passed", path)

\* the paths whose result of the given kind was sent and is received
Received(verdict) ==
    { p \in Paths : hist.result[p] = verdict }
    \ { event_rx[i].path :
          i \in { j \in 1..Len(event_rx) : /\ event_rx[j].type = "CompletedHashing"
                                            /\ event_rx[j].verdict = verdict } }

C16_Results ==
    /\ (\E w \in Hashers : HasTask(w)) =>
          \A p \in Paths : \A d \in Digests : HashEvent(p, d) = ExpectedEvent(p, d)
    /\ \A w \in Hashers : hasher_pc[w] = "advertise" => ~HasTask(w)
    /\ \A p \in Paths :
          hist.result[p] # None =>
              /\ hist.hashed[p] = 1
              /\ LET ev == ExpectedEvent(p, hist.first_trusted[p])
                 IN  hist.result[p] = IF ev.type = "DiskError" THEN "DiskError" ELSE ev.verdict
    /\ app.files_passed = Cardinality(Received("Passed"))
    /\ app.files_flagged = Received("Flagged")

C16_OneEvent ==
    \A w \in Hashers :
        (HasTask(w) /\ ~HasTask(w)') =>
            /\ hasher_pc'[w] = "advertise"
            /\ event_rx' = Append(event_rx, ExpectedEvent(oneshot[w][1], oneshot[w][2]))

\* C16: for every task delivered to a hasher the worker sends exactly one
\* result event before it advertises itself again: DiskError if the file
\* cannot be opened or read or the digest is not hex, Flagged if the SHA-256
\* differs from the digest, Passed if it is equal; the Coordinator counts a
\* Passed in files_passed and puts a Flagged path into files_flagged.
C16_HasherResults == []C16_Results /\ [][C16_OneEvent]_vars

\* C16 witness: the run is over; /b was hashed against the wrong digest aa
\* and flagged, and the hasher has been retired since
C16_Witness ==
    /\ coordinator = "done"
    /\ hist.hashed_with["/b"] = {"aa"}
    /\ hist.result["/b"] = "Flagged"
    /\ app.files_flagged = {"/b"}

\* the items of the report's lines with the given tag, in the order written
RECURSIVE Tagged(_, _)
Tagged(lines, tag) ==
    IF lines = <<>> THEN <<>>
    ELSE (IF Head(lines).tag = tag THEN << Head(lines).item >> ELSE <<>>)
         \o Tagged(Tail(lines), tag)

\* the place of a kind of line in the report, and of a path in the
\* lexicographic order of paths
Section(tag) == CASE tag = "NO SHA256" -> 1 [] tag = "DISK ERROR" -> 2 [] tag = "WRONG SHA256" -> 3
Rank(path) == CHOOSE i \in 1..Len(SortedPaths) : SortedPaths[i] = path

\* C17: the report is written only after the loop has exited; its lines are
\* every [NO SHA256] line (one per path left in waiting_for_data), then the
\* [DISK ERROR] lines in the order the errors were received, then the
\* [WRONG SHA256] lines in lexicographic path order, each flagged path once.
C17_ReportOrder ==
    /\ coordinator # "done" => report = <<>>
    /\ coordinator = "done" =>
          LET nosha == Tagged(report, "NO SHA256")
              wrong == Tagged(report, "WRONG SHA256")
          IN  /\ \A i, j \in 1..Len(report) :
                    i < j => Section(report[i].tag) <= Section(report[j].tag)
              /\ Queued(nosha) = app.waiting_for_data
              /\ Len(nosha) = Cardinality(app.waiting_for_data)
              /\ Tagged(report, "DISK ERROR") = hist.errors
              /\ Queued(wrong) = app.files_flagged
              /\ \A i, j \in 1..Len(wrong) : i < j => Rank(wrong[i]) < Rank(wrong[j])
    /\ coordinator = "done" =>
          \A flagged \in SUBSET Paths :
              LET wrong == Tagged(WriteReport([app EXCEPT !.files_flagged = flagged]),
                                  "WRONG SHA256")
              IN  /\ Queued(wrong) = flagged
                  /\ \A i, j \in 1..Len(wrong) : i < j => Rank(wrong[i]) < Rank(wrong[j])

\* C17 witness: a report with two [DISK ERROR] lines, the error for /b
\* received before the one for /a
C17_Witness ==
    /\ coordinator = "done"
    /\ Tagged(report, "DISK ERROR") = << "/b", "/a" >>

\* the line has a word key=..., and the value of its last word with that key
HasKey(line, key) == \E i \in 1..Len(line.words) : line.words[i].eq /\ line.words[i].key = key
LastValue(line, key) ==
    LET at == { i \in 1..Len(line.words) : line.words[i].eq /\ line.words[i].key = key }
    IN  line.words[CHOOSE i \in at : \A j \in at : j <= i].value

\* C18: parse yields no entry for a line that does not start with '.';
\* otherwise an absent type yields a File entry and requires size and
\* sha256digest (md5digest optional), type=dir yields a Directory entry,
\* type=link yields a Link entry and requires mode and link, another type
\* yields no entry; unknown keys are ignored and a line that lacks a
\* required field yields no entry.
C18_ParseDispatch ==
    mtree_entry # Unparsed =>
        LET line == mtree_line
            validsize == HasKey(line, "size") /\ \A i \in 1..Len(line.words) :
                            (line.words[i].eq /\ line.words[i].key = "size")
                                => IsU64(line.words[i].value)
        IN  IF ~line.dot THEN mtree_entry = NoEntry
            ELSE IF ~HasKey(line, "type")
            THEN IF validsize /\ HasKey(line, "sha256digest")
                 THEN /\ mtree_entry.content = "File"
                      /\ mtree_entry.sha256digest = LastValue(line, "sha256digest")
                 ELSE mtree_entry = NoEntry
            ELSE IF LastValue(line, "type") = "dir"
            THEN mtree_entry.content = "Directory"
            ELSE IF LastValue(line, "type") = "link"
            THEN IF HasKey(line, "mode") /\ HasKey(line, "link")
                 THEN mtree_entry.content = "Link"
                 ELSE mtree_entry = NoEntry
            ELSE mtree_entry = NoEntry

\* the ways the run accounts for a path received as DiskFile
Accounts(p) ==
    { k \in { "NO SHA256", "passed", "WRONG SHA256", "DISK ERROR" } :
        \/ k = "NO SHA256" /\ p \in app.waiting_for_data
        \/ k = "passed" /\ p \in Received("Passed")
        \/ k = "WRONG SHA256" /\ p \in app.files_flagged
        \/ k = "DISK ERROR" /\ p \in Queued(app.disk_errors) }

\* C19: when the loop exits on the closed bus, waiting_for_hasher is empty
\* and no hash is in flight, and every path received as DiskFile is
\* accounted for exactly once: in waiting_for_data, counted in files_passed,
\* in files_flagged, or reported by its hasher as DiskError.
C19_AllAccounted ==
    coordinator = "done" =>
        /\ app.waiting_for_hasher = <<>>
        /\ hist.in_flight = 0
        /\ \A p \in hist.disk_seen : Cardinality(Accounts(p)) = 1

\* C20: an exclude entry suppresses the excluded path and what lies below
\* it only: once CompletedDiskScan is received, every regular file that is
\* neither excluded nor below an excluded directory was received as
\* DiskFile exactly once, whether the entries name directories or files.
C20_OnlyExcludedSuppressed ==
    ~app.running_disk_scan =>
        \A j \in 1..Len(tree) :
            ( /\ tree[j].type = "file"
              /\ tree[j].path \notin excluded
              /\ \A i \in ExcludedDirs : ~Below(tree, j, i) )
            => hist.disk_count[tree[j].path] = 1

\* the App after the two events of a path, trusted digest first and disk first
TrustedThenDisk(a, p, h) == Update(Update(a, TrustedFile(p, h)), DiskFile(p))
DiskThenTrusted(a, p, h) == Update(Update(a, DiskFile(p)), TrustedFile(p, h))

\* path p has no trusted digest and was not seen on disk
Unmatched(p) == app.trusted_hashes[p] = None /\ p \notin hist.disk_seen

\* the digests the archive sends for path p
TrustedFor(p) ==
    UNION { { manifest[pkg][i][2] :
                i \in { j \in 1..Len(manifest[pkg]) : manifest[pkg][j][1] = p } } :
            pkg \in Pkgs }

C21_State ==
    /\ \A p \in Paths :
          Unmatched(p) =>
              \A h \in TrustedFor(p) :
                  LET after == TrustedThenDisk(app, p, h)
                  IN  /\ after = DiskThenTrusted(app, p, h)
                      /\ after = [app EXCEPT !.trusted_hashes[p] = h,
                                             !.waiting_for_hasher = Append(@, << p, h >>)]
                      /\ p \notin after.waiting_for_data
    /\ \A p \in hist.disk_seen \cap hist.trusted_seen :
          /\ app.trusted_hashes[p] = hist.first_trusted[p]
          /\ p \notin app.waiting_for_data
          /\ hist.enqueued[p] = 1

C21_Step ==
    \A p \in Paths :
        ( /\ p \in hist'.disk_seen \cap hist'.trusted_seen
          /\ p \notin hist.disk_seen \cap hist.trusted_seen )
        => /\ hist.enqueued[p] = 0
           /\ hist'.enqueued[p] = 1
           /\ p \notin app'.waiting_for_data
           /\ app'.trusted_hashes[p] = hist'.first_trusted[p]

\* C21: the matching protocol is commutative for one path: from a state
\* where p has no trusted digest and was not seen on disk, TrustedFile(p,h)
\* then DiskFile(p) and DiskFile(p) then TrustedFile(p,h) give the same App,
\* with p mapped to h, p absent from waiting_for_data and exactly one (p,h)
\* added to waiting_for_hasher; in a run the second of the two events,
\* whichever it is, queues the path once under its first digest.
C21_Commutative == []C21_State /\ [][C21_Step]_vars

\* C21 witness: /a and /b wait for a hasher, /b queued before /a although
\* the scanner sends /a first: the digest of /a came after its DiskFile
C21_Witness ==
    /\ Len(app.waiting_for_hasher) = 2
    /\ app.waiting_for_hasher[1][1] = "/b"
    /\ app.waiting_for_hasher[2][1] = "/a"

\* the Packages forwarded to the work channel so far
Forwarded == Len(http_rx) + SumOver(hist.claimed, Pkgs)

\* the CompletedListInstalled events sent so far
CompletedListInstalledSent ==
    (IF app.running_list_installed THEN 0 ELSE 1)
    + Cardinality({ i \in 1..Len(event_rx) : event_rx[i] = CompletedListInstalled })

\* C22: for every Package DbLister sends PkgQueued and then forwards the
\* Package, so that as many PkgQueued events are sent as Packages are
\* forwarded (one more between the two sends); CompletedListInstalled is
\* sent exactly once, after the last PkgQueued, also when the loop is left
\* early because the work channel is closed or the walk failed.
C22_ListerProtocol ==
    /\ lister_pc = 2 => PkgQueuedSent = Forwarded + 1
    /\ lister_pc \in {0, 1} => PkgQueuedSent = Forwarded
    /\ CompletedListInstalledSent = IF ListerDone THEN 1 ELSE 0
    /\ ListerDone =>
          \A i \in 1..Len(event_rx) :
              event_rx[i] = PkgQueued =>
                  \E j \in (i + 1)..Len(event_rx) : event_rx[j] = CompletedListInstalled

\* the events the DiskScanner sends
ScanEvents == { "DiskFile", "DiskPwd", "DiskError" }

\* the CompletedDiskScan events sent so far
CompletedDiskScanSent ==
    (IF app.running_disk_scan THEN 0 ELSE 1)
    + Cardinality({ i \in 1..Len(event_rx) : event_rx[i] = CompletedDiskScan })

C23_State ==
    /\ scan_pc = "completed" => scan_pos > Len(tree)
    /\ CompletedDiskScanSent = IF scan_pc = "completed" THEN 1 ELSE 0
    /\ \A i \in 1..Len(event_rx) :
          event_rx[i].type \in ScanEvents =>
              /\ app.running_disk_scan
              /\ \A j \in 1..(i - 1) : event_rx[j] # CompletedDiskScan

C23_Step ==
    /\ ( /\ scan_pos <= Len(tree)
         /\ tree[scan_pos].type = "error"
         /\ scan_pos' # scan_pos )
       => /\ event_rx' = Append(event_rx, DiskError(AccessError(tree[scan_pos].path)))
          /\ scan_pos' = scan_pos + 1
          /\ scan_pc' = "walk"
    /\ ~app.running_disk_scan => hist'.disk_count = hist.disk_count

\* C23: for an entry the walk cannot access DiskScanner sends DiskError and
\* goes on with the next entry; at the end of the walk it sends
\* CompletedDiskScan exactly once, behind every DiskFile, DiskPwd and
\* DiskError of the scan, so that the Coordinator processes no DiskFile
\* after CompletedDiskScan.
C23_ScanProtocol == []C23_State /\ [][C23_Step]_vars

\* C23 witness: nothing is excluded, the scan is over, the error for /d/e
\* was received and so was the DiskFile of /d/y, the entry after it
C23_Witness ==
    /\ excluded = {}
    /\ ~app.running_disk_scan
    /\ hist.errors = << AccessError("/d/e") >>
    /\ "/d/y" \in hist.disk_seen
    /\ "/b" \in hist.disk_seen

\* the answer is a 2xx
Success(response) == response.status = "200"

C24_State ==
    \A pkg \in Pkgs :
        LET log == hist.requests[pkg]
        IN  /\ hist.claimed[pkg] = 0 => log = <<>>
            /\ hist.claimed[pkg] > 0 =>
                  /\ Len(log) \in {1, 2}
                  /\ log[1] = "zst"
                  /\ Len(log) = 2 <=> ~Success(archive[pkg].zst)
                  /\ Len(log) = 2 => log[2] = "xz"
            /\ hist.trusted_sent[pkg] > 0 => Success(archive[pkg][log[Len(log)]])

C24_Step ==
    \A i \in HttpWorkers :
        (fetch_pc[i] = "recv" /\ fetch_pc'[i] = "emit") =>
            LET pkg == Head(http_rx)
                log == hist'.requests[pkg]
                last == archive[pkg][log[Len(log)]]
            IN  fetch_stream'[i] =
                    IF Success(last) THEN WorkerFilter(FileDigests(last.mtree)) ELSE <<>>

Handles(bus, a, w) ==
    Cardinality({ i \in 1..Len(bus) : bus[i] = AvailableHasher(w) })
    + Cardinality({ i \in 1..Len(a.available_hashers) : a.available_hashers[i] = w })

C25_State ==
    /\ \A w \in Hashers :
          /\ Handles(event_rx, app, w) <= 1
          /\ hasher_pc[w] # "await" => Handles(event_rx, app, w) = 0
          /\ hasher_pc[w] = "await" => (Handles(event_rx, app, w) = 1 <=> oneshot[w] = NoTask)
          /\ oneshot[w] = Dropped => hasher_pc[w] \in { "await", "exited" }
    /\ app.retired_hashers = Cardinality({ w \in Hashers : oneshot[w] = Dropped })

C25_Step ==
    \A w \in Hashers :
        \* a handle leaves only fulfilled with a task or dropped
        /\ (Handles(event_rx, app, w) = 1 /\ Handles(event_rx', app', w) = 0)
              => oneshot[w] = NoTask /\ oneshot'[w] # NoTask
        \* a task or a drop comes through a handle, which leaves with it
        /\ (oneshot'[w] # oneshot[w] /\ oneshot'[w] # NoTask)
              => /\ oneshot[w] = NoTask
                 /\ Handles(event_rx, app, w) = 1
                 /\ Handles(event_rx', app', w) = 0
        \* a fulfilled handle is not dropped and gets no second task
        /\ HasTask(w) => oneshot'[w] \in { oneshot[w], NoTask }
        \* a dropped handle stays dropped, its worker never advertises again
        /\ oneshot[w] = Dropped => oneshot'[w] = Dropped /\ hasher_pc'[w] # "advertise"
        /\ (oneshot'[w] = Dropped /\ oneshot[w] # Dropped)
              => app'.retired_hashers > app.retired_hashers

\* C25: a hasher handle is used once: a handle that entered
\* available_hashers leaves it at most once, fulfilled with exactly one task
\* by the dispatch step or dropped by the retirement step, never both; a
\* worker has at most one handle outstanding, and a worker whose handle was
\* dropped never advertises again.
C25_SingleUse == []C25_State /\ [][C25_Step]_vars

\* C25 witness: the worker's first handle was fulfilled and /a hashed with
\* it, its next handle was dropped by the retirement step and it has ended
C25_Witness ==
    /\ hist.hashed["/a"] = 1
    /\ \E w \in Hashers : oneshot[w] = Dropped /\ hasher_pc[w] = "exited"
    /\ app.retired_hashers = NumHashWorker

\* C26: every entry (p, h) queued in waiting_for_hasher has h as the digest
\* recorded for p in trusted_hashes, and p is not in waiting_for_data: a
\* file is scheduled for hashing against the digest currently recorded for
\* its path only.
C26_QueuedAgainstRecorded ==
    \A i \in 1..Len(app.waiting_for_hasher) :
        LET p == app.waiting_for_hasher[i][1]
            h == app.waiting_for_hasher[i][2]
        IN  /\ h # None
            /\ app.trusted_hashes[p] = h
            /\ p \notin app.waiting_for_data

\* C26 witness: two packages claimed /a with different digests and both are
\* completed; /a is queued, its DiskFile received before its digest, while
\* /b waits for a digest
C26_Witness ==
    /\ app.completed_pkgs = NumPkgs
    /\ manifest[1] = << <<"/a", "aa">> >>
    /\ manifest[2] = << <<"/a", "bb">> >>
    /\ Len(app.waiting_for_hasher) = 1
    /\ app.waiting_for_hasher[1][1] = "/a"
    /\ app.waiting_for_data = {"/b"}

\* C27: retired_hashers + |available_hashers| <= N_HASH in every state of
\* the Coordinator, so that the number of running workers the redraw
\* computes, N_HASH - retired_hashers - |available_hashers|, never
\* underflows.
C27_NoUnderflow ==
    /\ app.num_hash_worker = NumHashWorker
    /\ app.retired_hashers + Len(app.available_hashers) <= app.num_hash_worker
    /\ app.num_hash_worker - app.retired_hashers >= 0
    /\ RunningHashWorkers(app) >= 0
    /\ RunningHashWorkers(app) =
          Cardinality({ w \in Hashers : /\ oneshot[w] # Dropped
                                        /\ w \notin Queued(app.available_hashers) })

\* C27 witness: after /a was hashed every worker that is not retired has its
\* handle in available_hashers, so the redraw computes 0 running workers
C27_Witness ==
    /\ coordinator = "running"
    /\ hist.hashed["/a"] = 1
    /\ app.available_hashers # <<>>
    /\ RunningHashWorkers(app) = 0

====
